---------------------------- MODULE Spec2Model ----------------------------
(***************************************************************************)
(* A model of ipl3hasher-new: the 48-bit IPL3 checksum (src/src/cpu.rs),   *)
(* the search driver (src/src/hasher.rs, src/src/main.rs), the Y-bit       *)
(* layout parser (src/src/cli.rs) and the ROM signing path.                *)
(*                                                                         *)
(* A u32 is held as a pair <<hi, lo>> of its two 16-bit halves, because    *)
(* the model checker's integers are 32-bit signed: every operation below   *)
(* is the u32 operation of the source carried out on the halves.           *)
(***************************************************************************)
EXTENDS Integers, Sequences, FiniteSets, TLC

(***************************************************************************)
(* u32 values and the primitives of CPUHasher (cpu.rs 9-35).               *)
(***************************************************************************)
\* the u32 of a small non-negative integer n < 2^31
W(n) == <<n \div 65536, n % 65536>>

\* the xor of two 4-bit integers a and b, at index 16 * a + b + 1
XorNibble ==
    << 0, 1, 2, 3, 4, 5, 6, 7, 8, 9, 10, 11, 12, 13, 14, 15,
       1, 0, 3, 2, 5, 4, 7, 6, 9, 8, 11, 10, 13, 12, 15, 14,
       2, 3, 0, 1, 6, 7, 4, 5, 10, 11, 8, 9, 14, 15, 12, 13,
       3, 2, 1, 0, 7, 6, 5, 4, 11, 10, 9, 8, 15, 14, 13, 12,
       4, 5, 6, 7, 0, 1, 2, 3, 12, 13, 14, 15, 8, 9, 10, 11,
       5, 4, 7, 6, 1, 0, 3, 2, 13, 12, 15, 14, 9, 8, 11, 10,
       6, 7, 4, 5, 2, 3, 0, 1, 14, 15, 12, 13, 10, 11, 8, 9,
       7, 6, 5, 4, 3, 2, 1, 0, 15, 14, 13, 12, 11, 10, 9, 8,
       8, 9, 10, 11, 12, 13, 14, 15, 0, 1, 2, 3, 4, 5, 6, 7,
       9, 8, 11, 10, 13, 12, 15, 14, 1, 0, 3, 2, 5, 4, 7, 6,
       10, 11, 8, 9, 14, 15, 12, 13, 2, 3, 0, 1, 6, 7, 4, 5,
       11, 10, 9, 8, 15, 14, 13, 12, 3, 2, 1, 0, 7, 6, 5, 4,
       12, 13, 14, 15, 8, 9, 10, 11, 4, 5, 6, 7, 0, 1, 2, 3,
       13, 12, 15, 14, 9, 8, 11, 10, 5, 4, 7, 6, 1, 0, 3, 2,
       14, 15, 12, 13, 10, 11, 8, 9, 6, 7, 4, 5, 2, 3, 0, 1,
       15, 14, 13, 12, 11, 10, 9, 8, 7, 6, 5, 4, 3, 2, 1, 0 >>

\* bitwise xor of two 16-bit integers, nibble by nibble
Xor16(a, b) ==
    XorNibble[16 * (a % 16) + (b % 16) + 1]
    + 16 * XorNibble[16 * ((a \div 16) % 16) + ((b \div 16) % 16) + 1]
    + 256 * XorNibble[16 * ((a \div 256) % 16) + ((b \div 256) % 16) + 1]
    + 4096 * XorNibble[16 * (a \div 4096) + (b \div 4096) + 1]

\* a ^ b on u32
xor(a, b) == <<Xor16(a[1], b[1]), Xor16(a[2], b[2])>>

\* a < b on u32
lt(a, b) == a[1] < b[1] \/ (a[1] = b[1] /\ a[2] < b[2])

\* u32::wrapping_add
add(a1, a2) ==
    LET l == a1[2] + a2[2]
        h == a1[1] + a2[1] + l \div 65536
    IN  <<h % 65536, l % 65536>>

\* u32::wrapping_sub
sub(a1, a2) ==
    LET l == 65536 + a1[2] - a2[2]
        h == 65536 + a1[1] - a2[1] - (IF l < 65536 THEN 1 ELSE 0)
    IN  <<h % 65536, l % 65536>>

\* u32::rotate_left; s is an integer shift count, taken modulo 32
rol(a, s) ==
    LET r == s % 32
        h == IF r >= 16 THEN a[2] ELSE a[1]
        l == IF r >= 16 THEN a[1] ELSE a[2]
        p == 2 ^ (r % 16)
    IN  <<(h * p + (l * p) \div 65536) % 65536,
          (l * p + (h * p) \div 65536) % 65536>>

\* u32::rotate_right
ror(a, s) == rol(a, (32 - (s % 32)) % 32)

\* the 32-bit product x * y of two 16-bit integers, as <<hi16, lo16>>
Mul16(x, y) ==
    LET p1 == x * (y % 256)
        p2 == x * (y \div 256)
        t  == p1 + (p2 % 256) * 256
    IN  <<p2 \div 256 + t \div 65536, t % 65536>>

\* the 64-bit product (a as u64) * (b as u64), as <<hi32, lo32>>
Mul64(a, b) ==
    LET ll == Mul16(a[2], b[2])
        lh == Mul16(a[2], b[1])
        hl == Mul16(a[1], b[2])
        hh == Mul16(a[1], b[1])
        c1 == ll[1] + lh[2] + hl[2]
        c2 == c1 \div 65536 + lh[1] + hl[1] + hh[2]
        c3 == c2 \div 65536 + hh[1]
    IN  <<(<<c3, c2 % 65536>>), (<<c1 % 65536, ll[2]>>)>>

\* u32::wrapping_mul
mul(a1, a2) == Mul64(a1, a2)[2]

\* CPUHasher::MAGIC = 0x6C078965
MAGIC == <<27655, 35173>>

\* sum without the multiplier substitution for a1 == 0
SumNoSubstitution(a0, a1, a2) ==
    LET prod == Mul64(a0, a1)
        diff == sub(prod[1], prod[2])
    IN  IF diff = <<0, 0>> THEN a0 ELSE diff

\* CPUHasher::sum
sum(a0, a1, a2) ==
    LET prod == Mul64(a0, IF a1 = <<0, 0>> THEN a2 ELSE a1)
        hi   == prod[1]
        lo   == prod[2]
        diff == sub(hi, lo)
    IN  IF diff = <<0, 0>> THEN a0 ELSE diff

(***************************************************************************)
(* CPUHasher::calculate, finalize, new, y_round, verify (cpu.rs 37-177).   *)
(* A payload is a function 0..1007 -> u32; a state is a function           *)
(* 0..15 -> u32.                                                           *)
(***************************************************************************)
\* the updates of state[0..=9] in round i (cpu.rs 44-61)
RoundHead(s, prev, data, i) ==
    LET iw == W(i)
        s3 == add(s[3], sum(add(data, W(5)), MAGIC, iw))
        s4 == add(s[4], ror(data, prev[2] % 32))
    IN  [s EXCEPT
          ![0] = add(s[0], sum(sub(W(1007), iw), data, iw)),
          ![1] = sum(s[1], data, iw),
          ![2] = xor(s[2], data),
          ![3] = s3,
          ![4] = s4,
          ![5] = add(s[5], rol(data, prev[1] \div 2048)),
          ![6] = IF lt(data, s[6])
                 THEN xor(add(s3, s[6]), add(data, iw))
                 ELSE xor(add(s4, data), s[6]),
          ![7] = sum(s[7], rol(data, prev[2] % 32), iw),
          ![8] = sum(s[8], ror(data, prev[1] \div 2048), iw),
          ![9] = IF lt(prev, data) THEN sum(s[9], data, iw) ELSE add(s[9], data)]

\* the updates of state[10..=15] in round i (cpu.rs 67-85); s is the state
\* after RoundHead of the same round
RoundTail(s, prev, data, next, i) ==
    LET iw == W(i)
    IN  [s EXCEPT
          ![10] = sum(add(s[10], data), next, iw),
          ![11] = sum(xor(s[11], data), next, iw),
          ![12] = add(s[12], xor(s[8], data)),
          ![13] = add(s[13], add(ror(data, data[2] % 32), ror(next, next[2] % 32))),
          ![14] = sum(sum(s[14], ror(data, prev[2] % 32), iw),
                      ror(next, data[2] % 32), iw),
          ![15] = sum(sum(s[15], rol(data, prev[1] \div 2048), iw),
                      rol(next, data[1] \div 2048), iw)]

\* one iteration of the loop of calculate, for round i of a run to `end`
Round(ipl3, s, i, end) ==
    LET prev == ipl3[IF i >= 2 THEN i - 2 ELSE 0]
        data == ipl3[IF i >= 1 THEN i - 1 ELSE 0]
        h    == RoundHead(s, prev, data, i)
    IN  IF i = end THEN h ELSE RoundTail(h, prev, data, ipl3[i], i)

RECURSIVE Rounds(_, _, _, _, _)
\* rounds lo..hi of the loop, in order (split in halves to bound the
\* evaluation depth)
Rounds(ipl3, s, lo, hi, end) ==
    IF lo > hi THEN s
    ELSE IF lo = hi THEN Round(ipl3, s, lo, end)
    ELSE LET mid  == (lo + hi) \div 2
             left == Rounds(ipl3, s, lo, mid, end)
         IN  \* the comparison makes the first half be computed before
             \* the second half is entered
             IF left = left THEN Rounds(ipl3, left, mid + 1, hi, end) ELSE left

\* CPUHasher::calculate
calculate(ipl3, state, end) ==
    LET e == IF end < 1008 THEN end ELSE 1008
    IN  Rounds(ipl3, state, 1, e, e)


RECURSIVE FinalizeLoop(_, _, _)
\* iterations i..15 of the loop of finalize over buffer[0..3] (cpu.rs 92-111)
FinalizeLoop(state, buffer, i) ==
    IF i > 15 THEN buffer
    ELSE LET data == state[i]
             iw   == W(i)
             b0   == add(buffer[0], ror(data, data[2] % 32))
             b1   == IF lt(data, b0) THEN add(buffer[1], data)
                     ELSE sum(buffer[1], data, iw)
             b2   == IF (data[2] \div 2) % 2 = data[2] % 2
                     THEN add(buffer[2], data)
                     ELSE sum(buffer[2], data, iw)
             b3   == IF data[2] % 2 = 1 THEN xor(buffer[3], data)
                     ELSE sum(buffer[3], data, iw)
         IN  FinalizeLoop(state, [buffer EXCEPT ![0] = b0, ![1] = b1,
                                                ![2] = b2, ![3] = b3], i + 1)

\* CPUHasher::finalize; the u64 checksum is the pair <<bits 47..32, bits 31..0>>
finalize(state) ==
    LET buffer    == FinalizeLoop(state, [k \in 0..3 |-> state[0]], 0)
        final_sum == sum(buffer[0], buffer[1], W(16))
        final_xor == xor(buffer[3], buffer[2])
    IN  <<final_sum[2], final_xor>>

\* u32::from_be_bytes of bytes 4i..4i+3 of a byte array
WordAt(bytes, i) ==
    <<bytes[4 * i] * 256 + bytes[4 * i + 1],
      bytes[4 * i + 2] * 256 + bytes[4 * i + 3]>>

\* CPUHasher::new: the decoded payload and the initial state
NewCPU(ipl3_raw_data, seed) ==
    LET ipl3w == [i \in 0..1007 |-> WordAt(ipl3_raw_data, i)]
        fill  == xor(add(mul(MAGIC, W(seed)), W(1)), ipl3w[0])
    IN  [ipl3 |-> ipl3w, state |-> [k \in 0..15 |-> fill]]

\* (w >> i) & 0x01 on u32, i in 0..31
BitOf(w, i) ==
    IF i < 16 THEN (w[2] \div (2 ^ i)) % 2 ELSE (w[1] \div (2 ^ (i - 16))) % 2

\* w | (bit << bitoffset) on u32
OrBit(w, bit, bitoffset) ==
    IF bit = 0 \/ BitOf(w, bitoffset) = 1 THEN w
    ELSE IF bitoffset < 16 THEN <<w[1], w[2] + 2 ^ bitoffset>>
    ELSE <<w[1] + 2 ^ (bitoffset - 16), w[2]>>

\* the Y-bit loop with the word index 16 words further on
RECURSIVE SetYBitsShifted(_, _, _, _)
SetYBitsShifted(ipl3, y_bits, y, i) ==
    IF i >= Len(y_bits) THEN ipl3
    ELSE LET index     == 16 + y_bits[i + 1] \div 32
             bitoffset == y_bits[i + 1] % 32
             bit       == BitOf(y, i)
         IN  SetYBitsShifted(
                 IF index \in DOMAIN ipl3
                 THEN [ipl3 EXCEPT ![index] = OrBit(@, bit, bitoffset)]
                 ELSE ipl3, y_bits, y, i + 1)

RECURSIVE SetYBits(_, _, _, _)
\* iterations i.. of the loop that sets the Y value in the bit positions
\* given by y_bits (cpu.rs 138-143 and 166-171); y_bits is a sequence, so
\* the source's y_bits[i] is y_bits[i + 1] here
SetYBits(ipl3, y_bits, y, i) ==
    IF i >= Len(y_bits) THEN ipl3
    ELSE LET index     == y_bits[i + 1] \div 32
             bitoffset == y_bits[i + 1] % 32
             bit       == BitOf(y, i)
         IN  SetYBits([ipl3 EXCEPT ![index] = OrBit(@, bit, bitoffset)],
                      y_bits, y, i + 1)

\* the precalculation of y_round without the state[12] update
YRoundPrecalcNo12(state, prev, data) ==
    [state EXCEPT
      ![10] = add(state[10], data),
      ![11] = xor(state[11], data),
      ![13] = add(state[13], ror(data, data[2] % 32)),
      ![14] = sum(state[14], ror(data, prev[2] % 32), W(1007)),
      ![15] = sum(state[15], rol(data, prev[1] \div 2048), W(1007))]

\* the precalculation at the end of y_round (cpu.rs 152-157)
YRoundPrecalc(state, prev, data) ==
    [state EXCEPT
      ![10] = add(state[10], data),
      ![11] = xor(state[11], data),
      ![12] = add(state[12], xor(state[8], data)),
      ![13] = add(state[13], ror(data, data[2] % 32)),
      ![14] = sum(state[14], ror(data, prev[2] % 32), W(1007)),
      ![15] = sum(state[15], rol(data, prev[1] \div 2048), W(1007))]

\* CPUHasher::y_round
y_round(cpu, y_bits, y) ==
    LET ipl3  == SetYBits(cpu.ipl3, y_bits, y, 0)
        state == calculate(ipl3, cpu.state, 1007)
    IN  YRoundPrecalc(state, ipl3[1005], ipl3[1006])

\* the local ipl3 of CPUHasher::verify at the call of calculate (cpu.rs 163-173)
VerifyPayload(cpu, y_bits, y, x) ==
    [SetYBits(cpu.ipl3, y_bits, y, 0) EXCEPT ![1007] = x]

\* the local state of CPUHasher::verify after calculate (cpu.rs 175)
VerifyState(cpu, y_bits, y, x) ==
    calculate(VerifyPayload(cpu, y_bits, y, x), cpu.state, 1008)

\* CPUHasher::verify
verify(cpu, y_bits, y, x) == finalize(VerifyState(cpu, y_bits, y, x))

(***************************************************************************)
(* The GPU kernel's per-candidate tail.  The shader is not among the       *)
(* repository's files here; this is the tail as the specification's        *)
(* section 4.C words it.                                                   *)
(***************************************************************************)
KernelTail(sy, data, candidate_X) ==
    [sy EXCEPT
      ![10] = sum(sy[10], candidate_X, W(1007)),
      ![11] = sum(sy[11], candidate_X, W(1007)),
      ![13] = add(sy[13], ror(candidate_X, candidate_X[2] % 32)),
      ![14] = sum(sy[14], ror(candidate_X, data[2] % 32), W(1007)),
      ![15] = sum(sy[15], rol(candidate_X, data[1] \div 2048), W(1007))]

(***************************************************************************)
(* State.                                                                  *)
(***************************************************************************)
VARIABLES
    \* a call of CPUHasher::sum: its arguments and its result
    a0, a1, a2, res,
    \* a CPUHasher and the calls made on it: the object (ipl3, state), the
    \* arguments y_bits, y, x, the local ipl3 of y_round and of verify, the
    \* state y_round returns, the kernel's state for candidate x, the local
    \* state of verify before finalize, and the checksum verify returns
    cpu, hpc, hy_bits, hy, hx, ypayload, sy, kstate, vpayload, vstate, checksum,
    \* a call of ybits_parser: its argument (a sequence of characters) and
    \* the Result it returns
    str, parsed,
    \* a ROM file signed and loaded again: the file's bytes, the CPUHasher
    \* that Hasher::new built from it, the arguments and the Result of
    \* sign_rom, and the bytes load_ipl3 returns afterwards
    rom, rcpu, rpc, sign_args, sign_result, reloaded,
    \* a run of main: the position in it; the fields of the Hasher (y_bits,
    \* y, workgroup_configuration, target_checksum) and the results of its
    \* cpu on the arguments the run can pass; the options sign and y_init;
    \* state and x_offset of compute_round; what x_round, compute_round and
    \* run_hasher returned last; the exit code of the process; the (y, x)
    \* sign_rom was called with; the y values compute_round has passed to
    \* y_round and the offsets it has passed to x_round for the current y
    dpc, self_y_bits, self_y, self_workgroup_configuration,
    self_target_checksum, cpu_table, sign, y_init, round_state, x_offset,
    x_result, round_result, run_result, exit_code, signed, examined,
    dispatched,
    \* one GPU dispatch: the uniform {S_Y, data, Y, x_offset, target}, the
    \* position of each kernel thread, the result buffer {found_flag, Y, X},
    \* what x_round reads back, and the threads whose compare-and-swap
    \* succeeded and that have written Y and X
    uniform, tpc, found_flag, result_y, result_x, readback, cas_winners,
    y_writers, x_writers

sumVars   == <<a0, a1, a2, res>>
hashVars  == <<cpu, hpc, hy_bits, hy, hx, ypayload, sy, kstate, vpayload, vstate, checksum>>
cpuVars   == <<sumVars, hashVars>>
parseVars == <<str, parsed>>
romVars   == <<rom, rcpu, rpc, sign_args, sign_result, reloaded>>
runVars   ==
    <<dpc, self_y_bits, self_y, self_workgroup_configuration,
      self_target_checksum, cpu_table, sign, y_init, round_state, x_offset,
      x_result, round_result, run_result, exit_code, signed, examined,
      dispatched>>
gpuVars   ==
    <<uniform, tpc, found_flag, result_y, result_x, readback, cas_winners,
      y_writers, x_writers>>
vars      == <<cpuVars, parseVars, romVars, runVars, gpuVars>>

None == <<>>

SumIdle  == a0 = None /\ a1 = None /\ a2 = None /\ res = None
HashIdle ==
    /\ cpu = None /\ hpc = "idle" /\ hy_bits = None /\ hy = None /\ hx = None
    /\ ypayload = None /\ sy = None /\ kstate = None /\ vpayload = None
    /\ vstate = None /\ checksum = None
CpuIdle   == SumIdle /\ HashIdle
ParseIdle == str = None /\ parsed = None
RomIdle   ==
    /\ rom = None /\ rcpu = None /\ rpc = "idle" /\ sign_args = None
    /\ sign_result = None /\ reloaded = None

RunIdle   ==
    /\ dpc = "idle" /\ self_y_bits = None /\ self_y = None
    /\ self_workgroup_configuration = None /\ self_target_checksum = None
    /\ cpu_table = None /\ sign = None /\ y_init = None /\ round_state = None
    /\ x_offset = None /\ x_result = None /\ round_result = None
    /\ run_result = None /\ exit_code = None /\ signed = None
    /\ examined = None /\ dispatched = None

GpuIdle   ==
    /\ uniform = None /\ tpc = None /\ found_flag = None /\ result_y = None
    /\ result_x = None /\ readback = None /\ cas_winners = None
    /\ y_writers = None /\ x_writers = None

\* the variables each specification leaves alone, and their values in it
nonCpuVars   == <<parseVars, romVars, runVars, gpuVars>>
NonCpuIdle   == ParseIdle /\ RomIdle /\ RunIdle /\ GpuIdle
nonParseVars == <<cpuVars, romVars, runVars, gpuVars>>
NonParseIdle == CpuIdle /\ RomIdle /\ RunIdle /\ GpuIdle
nonRomVars   == <<cpuVars, parseVars, runVars, gpuVars>>
NonRomIdle   == CpuIdle /\ ParseIdle /\ RunIdle /\ GpuIdle
nonRunVars   == <<cpuVars, parseVars, romVars, gpuVars>>
NonRunIdle   == CpuIdle /\ ParseIdle /\ RomIdle /\ GpuIdle
nonGpuVars   == <<cpuVars, parseVars, romVars, runVars>>
NonGpuIdle   == CpuIdle /\ ParseIdle /\ RomIdle /\ RunIdle

(***************************************************************************)
(* CPUHasher (cpu.rs): calls of sum, and a CPUHasher object with the calls *)
(* y_round, the kernel tail for a candidate, and verify.                   *)
(***************************************************************************)
\* arguments of sum: the corner values and the words of scenarios S3 and S4;
\* 641 * 6700417 = 2^32 + 1, the product whose two halves are equal
SumArgs ==
    { <<0, 0>>, <<0, 1>>, <<0, 2>>, <<0, 7>>, <<0, 641>>, <<102, 15745>>,
      <<1, 0>>, <<32768, 0>>, <<65535, 65535>>, <<4660, 22136>>,
      <<57005, 48879>>, MAGIC }

SumInit ==
    /\ a0 \in SumArgs /\ a1 \in SumArgs /\ a2 \in SumArgs
    /\ res = None
    /\ HashIdle /\ NonCpuIdle

\* CPUHasher::sum(a0, a1, a2)
SumCall ==
    /\ a0 # None /\ res = None
    /\ res' = sum(a0, a1, a2)
    /\ UNCHANGED <<a0, a1, a2, hashVars, nonCpuVars>>

NumPayloads == 2

\* byte j of the 4032-byte IPL3 number k; number 0 is all zero
RawPayload(k) ==
    [j \in 0..4031 |-> IF k = 0 THEN 0 ELSE (j * j * 7 + 131 * j * k + 89 * k) % 256]

\* the seed used with IPL3 number k: the seeds of CIC 6102 and 6105
\* (cli.rs 95, 97)
SeedOf(k) == IF k % 2 = 0 THEN 63 ELSE 145

\* --y-bits 1022[0..31], the default (cli.rs 21)
DefaultLayout == [i \in 1..32 |-> (1022 - 16) * 32 + (i - 1)]

\* --y-bits 1021[31..31],1022[0..1]
EdgeLayout == <<(1021 - 16) * 32 + 31, (1022 - 16) * 32, (1022 - 16) * 32 + 1>>

\* --y-bits 40[8..16],56[12..24], the example of the option's help (cli.rs 20)
HelpLayout ==
    [i \in 1..22 |-> IF i <= 9 THEN (40 - 16) * 32 + 8 + (i - 1)
                     ELSE (56 - 16) * 32 + 12 + (i - 10)]

\* the (y_bits, y) arguments tried
HashYArgs ==
    { <<DefaultLayout, <<0, 1>> >>, <<DefaultLayout, <<42405, 50115>> >>,
      <<EdgeLayout, <<0, 5>> >>, <<HelpLayout, <<42, 43690>> >> }

\* the candidates x tried
HashXs == {<<0, 0>>, <<57005, 48879>>}

HashInit ==
    /\ \E k \in 0..(NumPayloads - 1) : cpu = NewCPU(RawPayload(k), SeedOf(k))
    /\ hpc = "new"
    /\ hy_bits = None /\ hy = None /\ hx = None
    /\ ypayload = None /\ sy = None /\ kstate = None /\ vpayload = None
    /\ vstate = None /\ checksum = None
    /\ SumIdle /\ NonCpuIdle

CpuInit == SumInit \/ HashInit

\* cpu.y_round(y_bits, y)
CallYRound ==
    /\ hpc = "new"
    /\ \E arg \in HashYArgs :
         /\ hy_bits' = arg[1]
         /\ hy' = arg[2]
         /\ ypayload' = SetYBits(cpu.ipl3, arg[1], arg[2], 0)
         /\ sy' = y_round(cpu, arg[1], arg[2])
    /\ hpc' = "y_round"
    /\ UNCHANGED <<cpu, hx, kstate, vpayload, vstate, checksum, sumVars, nonCpuVars>>

\* one kernel thread's tail for candidate x, with data = word 1006 of the
\* payload y_round hashed
CallKernelTail ==
    /\ hpc = "y_round"
    /\ \E xv \in HashXs :
         /\ hx' = xv
         /\ kstate' = KernelTail(sy, ypayload[1006], xv)
    /\ hpc' = "kernel"
    /\ UNCHANGED <<cpu, hy_bits, hy, ypayload, sy, vpayload, vstate, checksum, sumVars, nonCpuVars>>

\* cpu.verify(y_bits, y, x)
CallVerify ==
    /\ hpc = "kernel"
    /\ \E st \in {VerifyState(cpu, hy_bits, hy, hx)} :
           /\ vstate' = st
           /\ checksum' = finalize(st)
    /\ vpayload' = VerifyPayload(cpu, hy_bits, hy, hx)
    /\ hpc' = "verify"
    /\ UNCHANGED <<cpu, hy_bits, hy, hx, ypayload, sy, kstate, sumVars, nonCpuVars>>

CpuNext == SumCall \/ CallYRound \/ CallKernelTail \/ CallVerify

SpecCpu == CpuInit /\ [][CpuNext]_vars

(***************************************************************************)
(* Properties of CPUHasher.                                                *)
(***************************************************************************)
\* the value of u32 w modulo p, for p < 2^15
WMod(w, p) == ((w[1] % p) * (65536 % p) + w[2]) % p

\* the value of the u64 <<hi, lo>> modulo p, for p < 2^15
W64Mod(hi, lo, p) ==
    LET r32 == ((65536 % p) * (65536 % p)) % p
    IN  (((WMod(hi, p) * r32) % p) + WMod(lo, p)) % p

\* five primes below 2^15 whose product exceeds 2^64: two numbers below 2^64
\* that agree modulo each of them are equal
Primes == {32749, 32719, 32717, 32713, 32707}

\* <<hi, lo>> is the integer product of a and m
IsProduct(a, m, hi, lo) ==
    \A p \in Primes : (WMod(a, p) * WMod(m, p)) % p = W64Mod(hi, lo, p)

\* C7: for all arguments, sum(a0, a1, a2) is the reference of section 4.A:
\* with m = a2 if a1 = 0 and a1 otherwise, and hi, lo the halves of the
\* 64-bit product a0 * m, the result is a0 when hi = lo and the non-zero
\* (hi - lo) mod 2^32 otherwise; sum(1, 0, 2) = 0xFFFFFFFE.
SumMatchesReference ==
    (a0 # None /\ res # None) =>
        LET m    == IF a1 = <<0, 0>> THEN a2 ELSE a1
            prod == Mul64(a0, m)
            hi   == prod[1]
            lo   == prod[2]
        IN  /\ IsProduct(a0, m, hi, lo)
            /\ hi = lo => res = a0
            /\ hi # lo => (res # <<0, 0>> /\ add(res, lo) = hi)
            /\ (a0 = <<0, 1>> /\ a1 = <<0, 0>> /\ a2 = <<0, 2>>) => res = <<65535, 65534>>

\* C7 witness: sum(641, 0, 6700417) took the substitution (a1 = 0) and the
\* identity fallback (641 * 6700417 = 2^32 + 1, hi = lo = 1) and returned a0
SumSubstitutionFallbackSeen ==
    a0 = <<0, 641>> /\ a1 = <<0, 0>> /\ a2 = <<102, 15745>> /\ res = <<0, 641>>

\* the state verify holds before finalize, rebuilt from the kernel's state:
\* round 1008 of calculate applied to it (prev = word 1006, data = x)
KernelStateAfterRound1008 == RoundHead(kstate, vpayload[1006], hx, 1008)

\* C1 (as amended): the kernel tail puts words 10..15 of y_round's state at
\* the values verify(Y, X) holds before finalize, and words 0..9 reach them
\* once round 1008 of calculate (data = X, prev = word 1006, i = 1008) is
\* applied as well; finalize of that state is verify(Y, X).
PrefixCorrectUpToRound1008 ==
    hpc = "verify" =>
        /\ \A k \in 10..15 : kstate[k] = vstate[k]
        /\ KernelStateAfterRound1008 = vstate
        /\ finalize(KernelStateAfterRound1008) = checksum

\* C1 witness: a kernel tail and a verify ran for a non-zero payload, the
\* default layout, a non-zero Y and a non-zero X
PrefixCaseSeen ==
    /\ hpc = "verify"
    /\ hy_bits = DefaultLayout /\ hy = <<42405, 50115>> /\ hx = <<57005, 48879>>
    /\ cpu.ipl3[3] # <<0, 0>>

\* C1 as stated: the kernel tail with S'[0..=9] copied from S_Y is the state
\* of verify(Y, X) before finalize, so finalize(S') = verify(Y, X)
PrefixCorrectAsStated ==
    hpc = "verify" => (kstate = vstate /\ finalize(kstate) = checksum)

\* the payload p is base with bit i of y OR-ed into word shift + L[i] / 32 at
\* bit L[i] % 32 for every i < |L|, each such word being a word of the
\* payload, and with no other bit changed outside the words of skip
PlacedAt(p, base, L, y, skip, shift) ==
    LET touched == {shift + (L[i] \div 32) : i \in 1..Len(L)}
    IN  /\ touched \subseteq 0..1007
        /\ \A w \in (0..1007) \ skip :
             IF w \in touched
             THEN \A b \in 0..31 :
                    BitOf(p[w], b) =
                      IF \E i \in 1..Len(L) :
                           /\ shift + (L[i] \div 32) = w
                           /\ L[i] % 32 = b
                           /\ BitOf(y, i - 1) = 1
                      THEN 1 ELSE BitOf(base[w], b)
             ELSE p[w] = base[w]

\* C10 (as amended): y_round and verify OR bit i of Y into payload word
\* L[i] / 32 (the ROM word 16 + L[i] / 32) at bit L[i] % 32 and change no
\* other bit, apart from verify setting word 1007 to X; with the default
\* layout the bits of Y land in payload word 1006.
YBitsPlacedAtLayoutWord ==
    /\ hpc \in {"y_round", "kernel", "verify"} =>
         /\ PlacedAt(ypayload, cpu.ipl3, hy_bits, hy, {}, 0)
         /\ hy_bits = DefaultLayout =>
              \A w \in 0..1007 : ypayload[w] # cpu.ipl3[w] => w = 1006
    /\ hpc = "verify" =>
         /\ PlacedAt(vpayload, cpu.ipl3, hy_bits, hy, {1007}, 0)
         /\ vpayload[1007] = hx

\* C10 witness: with the all-zero IPL3 and --y-bits 40[8..16],56[12..24],
\* Y = 0x2AAAAA put its bits 1, 3, 5, 7 into payload word 24 at bits 9, 11,
\* 13, 15, and verify ran on the same arguments
YBitsPlacedSeen ==
    /\ hpc = "verify"
    /\ hy_bits = HelpLayout /\ hy = <<42, 43690>>
    /\ cpu.ipl3[24] = <<0, 0>>
    /\ ypayload[24] = <<0, 43520>> /\ vpayload[24] = <<0, 43520>>

\* C10 as stated: the bits of Y go into payload word 16 + L[i] / 32
YBitsPlacedAsStated ==
    /\ hpc \in {"y_round", "kernel", "verify"} =>
         PlacedAt(ypayload, cpu.ipl3, hy_bits, hy, {}, 16)
    /\ hpc = "verify" =>
         /\ PlacedAt(vpayload, cpu.ipl3, hy_bits, hy, {1007}, 16)
         /\ vpayload[1007] = hx


(***************************************************************************)
(* ybits_parser (cli.rs).  A string is a sequence of one-character         *)
(* strings.                                                                *)
(***************************************************************************)
\* str::split(sep) for a one-character separator, from position i on, cur
\* being the piece collected so far
RECURSIVE SplitFrom(_, _, _, _)
SplitFrom(s, sep, i, cur) ==
    IF i > Len(s) THEN <<cur>>
    ELSE IF s[i] = sep THEN <<cur>> \o SplitFrom(s, sep, i + 1, <<>>)
    ELSE SplitFrom(s, sep, i + 1, Append(cur, s[i]))

Split(s, sep) == SplitFrom(s, sep, 1, <<>>)

\* str::split("..") from position i on: matches are taken left to right and
\* do not overlap
RECURSIVE SplitDotsFrom(_, _, _)
SplitDotsFrom(s, i, cur) ==
    IF i > Len(s) THEN <<cur>>
    ELSE IF i < Len(s) /\ s[i] = "." /\ s[i + 1] = "."
         THEN <<cur>> \o SplitDotsFrom(s, i + 2, <<>>)
    ELSE SplitDotsFrom(s, i + 1, Append(cur, s[i]))

SplitDots(s) == SplitDotsFrom(s, 1, <<>>)

\* str::contains(c)
Contains(s, c) == \E i \in 1..Len(s) : s[i] = c

\* str::trim_end_matches(c): every trailing c is removed
RECURSIVE TrimEndMatches(_, _)
TrimEndMatches(s, c) ==
    IF Len(s) > 0 /\ s[Len(s)] = c
    THEN TrimEndMatches(SubSeq(s, 1, Len(s) - 1), c)
    ELSE s

Digits == <<"0", "1", "2", "3", "4", "5", "6", "7", "8", "9">>

IsDigit(c) == \E d \in 1..10 : Digits[d] = c

DigitValue(c) == (CHOOSE d \in 1..10 : Digits[d] = c) - 1

ParseOk(v)  == [ok |-> TRUE, value |-> v]
ParseErr(e) == [ok |-> FALSE, err |-> e]

\* the digit loop of u32::from_str_radix(_, 10) from position i on, acc being
\* the value so far.  A value of 10^9 or more that fits 32 bits is held as
\* 10^9: the parser only compares values with 16, 1023, 32 and each other,
\* and every further digit overflows.
RECURSIVE ParseDigits(_, _, _)
ParseDigits(s, i, acc) ==
    IF i > Len(s) THEN ParseOk(acc)
    ELSE IF ~IsDigit(s[i]) THEN ParseErr("invalid digit found in string")
    ELSE LET d == DigitValue(s[i])
         IN  IF acc < 100000000 THEN ParseDigits(s, i + 1, acc * 10 + d)
             ELSE IF acc < 429496729 \/ (acc = 429496729 /\ d <= 5)
                  THEN ParseDigits(s, i + 1, 1000000000)
             ELSE ParseErr("number too large to fit in target type")

\* u32::from_str_radix(s, 10)
from_str_radix(s) ==
    IF Len(s) = 0 THEN ParseErr("cannot parse integer from empty string")
    ELSE IF Len(s) = 1 /\ s[1] \in {"+", "-"}
         THEN ParseErr("invalid digit found in string")
    ELSE IF s[1] = "+" THEN ParseDigits(s, 2, 0)
    ELSE ParseDigits(s, 1, 0)

\* the values pushed for word index and bits start..=end
RangeValues(index, start, end) ==
    [k \in 1..(end - start + 1) |-> (index - 16) * 32 + start + k - 1]

\* the word index test with both limits one further out
InvalidWordIndexLoose(index) == index < 16 \/ index > 1023

\* index <= 16 || index >= 1023 (cli.rs 49, 73)
InvalidWordIndex(index) == index <= 16 \/ index >= 1023

\* one iteration of the loop over the slices: the values after it, or the
\* error it returns
ParseSlice(slice, values) ==
    IF Contains(slice, "[")
    THEN LET parts == Split(slice, "[")
         IN  IF Len(parts) # 2 THEN ParseErr("invalid format")
             ELSE LET index == from_str_radix(parts[1])
                  IN  IF ~index.ok THEN index
                      ELSE IF InvalidWordIndex(index.value)
                           THEN ParseErr("invalid Y word index")
                      ELSE LET range       == TrimEndMatches(parts[2], "]")
                               range_parts == SplitDots(range)
                           IN  IF Len(range_parts) # 2
                               THEN ParseErr("invalid format")
                               ELSE LET start == from_str_radix(range_parts[1])
                                        end   == from_str_radix(range_parts[2])
                                    IN  IF ~start.ok THEN start
                                        ELSE IF ~end.ok THEN end
                                        ELSE IF start.value > end.value
                                             THEN ParseErr("invalid range")
                                        ELSE IF end.value >= 32
                                             THEN ParseErr("invalid range")
                                        ELSE ParseOk(values \o
                                                 RangeValues(index.value,
                                                     start.value, end.value))
    ELSE LET index == from_str_radix(slice)
         IN  IF ~index.ok THEN index
             ELSE IF InvalidWordIndex(index.value)
                  THEN ParseErr("invalid Y word index")
             ELSE ParseOk(values \o RangeValues(index.value, 0, 31))

\* the loop over the slices, from slice k on
RECURSIVE ParseSlices(_, _, _)
ParseSlices(slices, k, values) ==
    IF k > Len(slices) THEN ParseOk(values)
    ELSE LET r == ParseSlice(slices[k], values)
         IN  IF r.ok THEN ParseSlices(slices, k + 1, r.value) ELSE r

\* values.sort(): position r holds the element with r - 1 elements before
\* it, equal elements keeping their order
SortRank(values, i) ==
    Cardinality({j \in 1..Len(values) :
        values[j] < values[i] \/ (values[j] = values[i] /\ j < i)}) + 1

sort(values) ==
    [r \in 1..Len(values) |->
        values[CHOOSE i \in 1..Len(values) : SortRank(values, i) = r]]

\* ybits_parser(str)
ybits_parser(s) ==
    LET slices == Split(s, ",")
    IN  IF Len(slices) = 0 THEN ParseErr("invalid format")
        ELSE LET r == ParseSlices(slices, 1, <<>>)
             IN  IF ~r.ok THEN r
                 ELSE IF Len(r.value) > 32 THEN ParseErr("too many Y bits")
                 ELSE ParseOk(sort(r.value))

\* entries of --y-bits arguments: the default, the example of the help text,
\* overlapping ranges of one word, whole words, and malformed entries
EntryPool ==
    {
      <<"1", "0", "2", "2", "[", "0", ".", ".", "3", "1", "]">>,
      <<"4", "0", "[", "8", ".", ".", "1", "6", "]">>,
      <<"4", "0", "[", "1", "2", ".", ".", "2", "0", "]">>,
      <<"5", "6", "[", "1", "2", ".", ".", "2", "4", "]">>,
      <<"1", "7", "[", "0", ".", ".", "0", "]">>,
      <<"1", "7">>,
      <<"1", "0", "2", "2">>,
      <<"1", "6">>,
      <<"1", "0", "2", "3", "[", "0", ".", ".", "3", "]">>,
      <<"4", "0", "[", "5", ".", ".", "3", "]">>,
      <<"4", "0", "[", "0", ".", ".", "3", "2", "]">>,
      <<"4", "0", "[", "3", "]">>,
      <<"4", "0", "[", "[", "1", ".", ".", "2", "]">>,
      <<"4", "x", "[", "1", ".", ".", "2", "]">>,
      <<>>,
      <<"+", "4", "0", "[", "+", "1", ".", ".", "+", "2", "]">>,
      <<"4", "0", "[", "1", ".", ".", "2", "]", "]">>,
      <<"4", "0", "[", "3", "0", ".", ".", "3", "1">>,
      <<"0", "4", "0", "[", "0", "7", ".", ".", "0", "1", "6", "]">>,
      <<"4", "2", "9", "4", "9", "6", "7", "2", "9", "6">>,
      <<"4", "0", "[", "1", ".", ".", ".", "2", "]">>,
      <<"4", "0", "[", ".", ".", "2", "]">>
    }

\* the most entries of an argument
MaxEntries == 2

\* the entries joined by commas
RECURSIVE Join(_, _)
Join(entries, k) ==
    IF k > Len(entries) THEN <<>>
    ELSE IF k = Len(entries) THEN entries[k]
    ELSE entries[k] \o <<",">> \o Join(entries, k + 1)

YBitsArgs ==
    UNION { {Join(es, 1) : es \in [1..n -> EntryPool]} : n \in 1..MaxEntries }

ParseInit ==
    /\ str \in YBitsArgs
    /\ parsed = None
    /\ NonParseIdle

\* clap calls the value parser of --y-bits on the argument
CallYBitsParser ==
    /\ parsed = None
    /\ parsed' = ybits_parser(str)
    /\ UNCHANGED <<str, nonParseVars>>

ParseNext == CallYBitsParser

SpecParse == ParseInit /\ [][ParseNext]_vars

(***************************************************************************)
(* Properties of ybits_parser.                                             *)
(***************************************************************************)
\* C6: every layout ybits_parser returns as Ok has at most 32 entries and is
\* strictly increasing (sorted ascending, no bit index twice), also when the
\* entries of the argument name overlapping ranges of one word.
LayoutWellFormed ==
    (parsed # None /\ parsed.ok) =>
        /\ Len(parsed.value) <= 32
        /\ \A i \in 1..Len(parsed.value) : \A j \in 1..Len(parsed.value) :
               i < j => parsed.value[i] < parsed.value[j]

\* a payload of 1008 zero words
ZeroPayload == [i \in 0..1007 |-> <<0, 0>>]

\* C11: every entry b of a layout ybits_parser returns as Ok has
\* 1 <= b / 32 <= 1006, so the Y-bit loop of y_round and verify indexes
\* inside the 1008-word payload and changes neither word 0 nor word 1007,
\* whatever Y is (here all 32 bits set).
LayoutInsideMutableRegion ==
    (parsed # None /\ parsed.ok) =>
        LET L      == parsed.value
            placed == SetYBits(ZeroPayload, L, <<65535, 65535>>, 0)
        IN  /\ \A i \in 1..Len(L) : 1 <= L[i] \div 32 /\ L[i] \div 32 <= 1006
            /\ DOMAIN placed = 0..1007
            /\ placed[0] = ZeroPayload[0]
            /\ placed[1007] = ZeroPayload[1007]
            /\ \A w \in 0..1007 :
                   placed[w] # ZeroPayload[w] =>
                       \E i \in 1..Len(L) : L[i] \div 32 = w

\* the default --y-bits 1022[0..31] has been parsed: the layout reaches bit
\* 31 of payload word 1006, the last word before X
LastMutableWordSeen ==
    /\ parsed # None /\ parsed.ok
    /\ parsed.value = DefaultLayout
    /\ parsed.value[32] \div 32 = 1006 /\ parsed.value[32] % 32 = 31


(***************************************************************************)
(* The ROM file (hasher.rs): load_ipl3 and sign_rom.  A file is a function *)
(* from byte offsets to bytes.                                             *)
(***************************************************************************)
\* Hasher::load_ipl3: the 4032 bytes from offset 64 on
load_ipl3(f) == [j \in 0..4031 |-> f[64 + j]]

\* byte | mask and byte & !mask for mask = 1 << bit_offset
SetBit(byte, bit_offset) ==
    IF (byte \div (2 ^ bit_offset)) % 2 = 1 THEN byte ELSE byte + 2 ^ bit_offset

ClearBit(byte, bit_offset) ==
    IF (byte \div (2 ^ bit_offset)) % 2 = 1 THEN byte - 2 ^ bit_offset ELSE byte

\* iterations i.. of the loop of sign_rom over y_bits (hasher.rs 94-109)
RECURSIVE SignYBits(_, _, _, _)
SignYBits(f, y_bits, y, i) ==
    IF i >= Len(y_bits) THEN f
    ELSE LET byte_index == y_bits[i + 1] \div 8
             bit_offset == y_bits[i + 1] % 8
             byte       == IF BitOf(y, i) = 1
                           THEN SetBit(f[byte_index], bit_offset)
                           ELSE ClearBit(f[byte_index], bit_offset)
         IN  SignYBits([f EXCEPT ![byte_index] = byte], y_bits, y, i + 1)

\* x.to_be_bytes()
to_be_bytes(x) == <<x[1] \div 256, x[1] % 256, x[2] \div 256, x[2] % 256>>

\* the file after Hasher::sign_rom(path, y_bits, y, x) returns Ok
sign_rom(f, y_bits, y, x) ==
    LET data == to_be_bytes(x)
    IN  [SignYBits(f, y_bits, y, 0) EXCEPT
            ![4092] = data[1], ![4093] = data[2],
            ![4094] = data[3], ![4095] = data[4]]

\* --y-bits 17[0..0]
OneBitLayout == <<(17 - 16) * 32>>

RomLayouts == {DefaultLayout, EdgeLayout, HelpLayout, OneBitLayout}

\* the file bytes that hold the bits named by y_bits: the byte of payload
\* word b / 32 (big-endian, the payload starting at offset 64) that holds
\* bit b % 32, and the byte sign_rom addresses
NamedBytes(y_bits) ==
    UNION { {64 + 4 * (y_bits[i] \div 32) + 3 - ((y_bits[i] % 32) \div 8),
             y_bits[i] \div 8} : i \in 1..Len(y_bits) }

NumRoms == 2

\* byte j of the first 4096 bytes of ROM number k: number 0 is all zero, the
\* others are zero in the bytes the layouts name
RomImage(k) ==
    LET named == UNION {NamedBytes(L) : L \in RomLayouts}
    IN  [j \in 0..4095 |->
            IF k = 0 \/ j \in named THEN 0
            ELSE (j * j * 7 + 131 * j * k + 89 * k) % 256]

\* the (y_bits, y) a search can find, y <= 2^|y_bits| - 1
RomYArgs ==
    { <<OneBitLayout, <<0, 0>> >>, <<OneBitLayout, <<0, 1>> >>,
      <<DefaultLayout, <<0, 0>> >>, <<DefaultLayout, <<0, 1>> >>,
      <<DefaultLayout, <<42405, 50115>> >>, <<DefaultLayout, <<65535, 65535>> >>,
      <<EdgeLayout, <<0, 0>> >>, <<EdgeLayout, <<0, 5>> >>,
      <<EdgeLayout, <<0, 7>> >>,
      <<HelpLayout, <<0, 0>> >>, <<HelpLayout, <<42, 43690>> >> }

RomXs == {<<0, 0>>, <<0, 1>>, <<57005, 48879>>, <<65535, 65535>>}

RomInit ==
    /\ \E k \in 0..(NumRoms - 1) : rom = RomImage(k)
    /\ rcpu = None /\ rpc = "start" /\ sign_args = None
    /\ sign_result = None /\ reloaded = None
    /\ NonRomIdle

\* Hasher::new: load_ipl3 and CPUHasher::new (hasher.rs 61-63)
LoadRom ==
    /\ rpc = "start"
    /\ \E seed \in {63} : rcpu' = NewCPU(load_ipl3(rom), seed)
    /\ rpc' = "loaded"
    /\ UNCHANGED <<rom, sign_args, sign_result, reloaded, nonRomVars>>

\* Hasher::sign_rom(path, y_bits, y, x) for a collision (y, x)
SignRom ==
    /\ rpc = "loaded"
    /\ \E arg \in RomYArgs, x \in RomXs :
         /\ sign_args' = [y_bits |-> arg[1], y |-> arg[2], x |-> x]
         /\ rom' = sign_rom(rom, arg[1], arg[2], x)
    /\ sign_result' = "Ok"
    /\ rpc' = "signed"
    /\ UNCHANGED <<rcpu, reloaded, nonRomVars>>

\* sign_rom when the file cannot be opened for writing (hasher.rs 93)
SignRomOpenFails ==
    /\ rpc = "loaded"
    /\ \E arg \in RomYArgs, x \in RomXs :
         sign_args' = [y_bits |-> arg[1], y |-> arg[2], x |-> x]
    /\ sign_result' = "IoError"
    /\ rpc' = "signed"
    /\ UNCHANGED <<rom, rcpu, reloaded, nonRomVars>>

\* the signed ROM is loaded again
ReloadRom ==
    /\ rpc = "signed"
    /\ reloaded' = load_ipl3(rom)
    /\ rpc' = "reloaded"
    /\ UNCHANGED <<rom, rcpu, sign_args, sign_result, nonRomVars>>

RomNext == LoadRom \/ SignRom \/ SignRomOpenFails \/ ReloadRom

SpecRom == RomInit /\ [][RomNext]_vars

(***************************************************************************)
(* Properties of sign_rom.                                                 *)
(***************************************************************************)
\* C4: after sign_rom(L, Y, X) has returned Ok on a ROM whose bits named by
\* L are zero, the payload loaded again (file bytes 64..4096 as big-endian
\* words) is the payload P' that verify(Y, X) hashed: the bits of Y at the
\* positions the hasher uses for L, X in word 1007, nothing else changed.
SignReloadRoundTrip ==
    (rpc = "reloaded" /\ sign_result = "Ok") =>
        [i \in 0..1007 |-> WordAt(reloaded, i)]
            = VerifyPayload(rcpu, sign_args.y_bits, sign_args.y, sign_args.x)


(***************************************************************************)
(* The search driver: main and run_hasher (main.rs), Hasher::new, set_y    *)
(* and compute_round (hasher.rs).  GPUHasher::x_round is not among the     *)
(* repository's files here; it is the orchestrator of the specification's  *)
(* section 4.D, and any candidate of a dispatch may be the one it reports. *)
(* Every offset the driver reaches is a multiple of 256, the size of a     *)
(* workgroup: x_offset, the step and the size of the X space are counted   *)
(* in workgroups.                                                          *)
(***************************************************************************)
\* 2^32 candidates, in workgroups of 256
XSpace == 2 ^ 24

\* wx * wy * wz workgroups of 256 threads in one dispatch
StepOf(workgroups) == workgroups[1] * workgroups[2] * workgroups[3]

\* candidate xv is one of the dispatch at offset xo: candidate_X = x_offset +
\* global_id on 32 bits, global_id < step
InDispatch(xv, xo, step) ==
    ((xv[1] * 256 + xv[2] \div 256) + XSpace - xo) % XSpace < step

\* (1u64 << len) - 1 for len <= 32, as a u32
MaxY(len) ==
    <<2 ^ (IF len > 16 THEN len - 16 ELSE 0) - 1,
      2 ^ (IF len > 16 THEN 16 ELSE len) - 1>>

\* self.y as u64 > (1u64 << self.y_bits.len()) - 1 (hasher.rs 128)
PastLastY(yv, len) == lt(MaxY(len), yv)

\* the test of hasher.rs 162 left out
IsLastYNever(yv, len) == FALSE

\* self.y as u64 == (1u64 << self.y_bits.len()) - 1 (hasher.rs 162)
IsLastY(yv, len) == yv = MaxY(len)

\* compute_round returning Found whatever verify says
FoundResultUnverified(verify_checksum, target_checksum, yv, xv) ==
    <<"Found", yv, xv>>

\* what compute_round returns for GPUHasherResult::Found(yv, xv)
\* (hasher.rs 146-152)
FoundResult(verify_checksum, target_checksum, yv, xv) ==
    IF verify_checksum # target_checksum
    THEN <<"Err", "VerifyError", yv, xv, verify_checksum>>
    ELSE <<"Found", yv, xv>>

\* --y-bits 17[0..1]
TwoBitLayout == <<(17 - 16) * 32, (17 - 16) * 32 + 1>>

\* the Hasher's cpu: IPL3 number 1 with the seed of CIC 6102
DriverCpu == NewCPU(RawPayload(1), 63)

\* the (y_bits, y) for which a run below calls y_round
DriverYs ==
    { <<TwoBitLayout, <<0, 0>> >>, <<TwoBitLayout, <<0, 1>> >>,
      <<TwoBitLayout, <<0, 2>> >>, <<TwoBitLayout, <<0, 3>> >>,
      <<DefaultLayout, <<65535, 65534>> >>, <<DefaultLayout, <<65535, 65535>> >> }

\* the candidates x_round reports as hits
HitXs == {<<0, 7>>, <<57005, 48879>>}

\* self.cpu.y_round and self.cpu.verify on these arguments
CpuTable ==
    [y_round |-> {<<a[1], a[2], y_round(DriverCpu, a[1], a[2])>> : a \in DriverYs},
     verify  |-> {<<a[1], a[2], xv, verify(DriverCpu, a[1], a[2], xv)>> :
                     a \in DriverYs, xv \in HitXs}]

YRoundOf(table, L, yv) ==
    (CHOOSE e \in table.y_round : e[1] = L /\ e[2] = yv)[3]

VerifyOf(table, L, yv, xv) ==
    (CHOOSE e \in table.verify : e[1] = L /\ e[2] = yv /\ e[3] = xv)[4]

\* the (--y-bits, --y-init) of the runs; no --y-init is None
DriverRuns ==
    { <<TwoBitLayout, None>>, <<TwoBitLayout, <<0, 1>> >>,
      <<TwoBitLayout, <<0, 3>> >>, <<TwoBitLayout, <<0, 4>> >>,
      <<TwoBitLayout, <<65535, 65535>> >>,
      <<DefaultLayout, <<65535, 65534>> >>, <<DefaultLayout, <<65535, 65535>> >> }

\* --workgroups: the default, and steps of 2^31 and 3 * 2^30 candidates
Workgroups == { <<256, 256, 256>>, <<256, 256, 128>>, <<256, 256, 192>> }

\* the target of CIC 6102 (cli.rs 95), as finalize returns it
Target6102 == <<42294, <<49393, 55385>> >>

\* the most x_round calls followed for one y
MaxDispatches == 3

RunInit ==
    /\ cpu_table = CpuTable
    /\ \E run \in DriverRuns : self_y_bits = run[1] /\ y_init = run[2]
    /\ sign \in BOOLEAN
    /\ self_workgroup_configuration \in Workgroups
       \* the target of the CIC, or one the IPL3 does reach: the checksum
       \* of the IPL3 with (Y, X) = (2, 0xDEADBEEF)
    /\ self_target_checksum \in
           {Target6102, VerifyOf(cpu_table, TwoBitLayout, <<0, 2>>, <<57005, 48879>>)}
    /\ dpc = "start"
    /\ self_y = None /\ round_state = None /\ x_offset = None
    /\ x_result = None /\ round_result = None /\ run_result = None
    /\ exit_code = None /\ signed = None
    /\ examined = <<>> /\ dispatched = <<>>
    /\ NonRunIdle


\* run_hasher up to its loop: Hasher::new returns Ok, then set_y(y_init)
\* if --y-init is given (main.rs 24-35)
NewHasher ==
    /\ dpc = "start"
    /\ self_y' = IF y_init = None THEN <<0, 0>> ELSE y_init
    /\ dpc' = "loop"
    /\ UNCHANGED <<self_y_bits, self_workgroup_configuration,
                   self_target_checksum, cpu_table, sign, y_init,
                   round_state, x_offset, x_result, round_result, run_result,
                   exit_code, signed, examined, dispatched, nonRunVars>>

\* Hasher::new returns an error (hasher.rs 61, 68, 69), which run_hasher
\* returns (main.rs 31)
NewHasherFails ==
    /\ dpc = "start"
    /\ \E e \in {"IoError", "GPUAdapterOutOfBounds", "GPUHasherError"} :
           run_result' = <<"Err", e>>
    /\ dpc' = "returned"
    /\ UNCHANGED <<self_y_bits, self_y, self_workgroup_configuration,
                   self_target_checksum, cpu_table, sign, y_init,
                   round_state, x_offset, x_result, round_result, exit_code,
                   signed, examined, dispatched, nonRunVars>>

\* compute_round called with y past the last one: it returns End
\* (hasher.rs 128-130) and run_hasher leaves its loop and returns Ok
\* (main.rs 55-63)
ComputeRoundPastEnd ==
    /\ dpc = "loop"
    /\ PastLastY(self_y, Len(self_y_bits))
    /\ round_result' = <<"End">>
    /\ run_result' = <<"Ok">>
    /\ dpc' = "returned"
    /\ UNCHANGED <<self_y_bits, self_y, self_workgroup_configuration,
                   self_target_checksum, cpu_table, sign, y_init,
                   round_state, x_offset, x_result, exit_code, signed,
                   examined, dispatched, nonRunVars>>

\* compute_round up to its loop (hasher.rs 132-134)
ComputeRoundBegin ==
    /\ dpc = "loop"
    /\ ~PastLastY(self_y, Len(self_y_bits))
    /\ round_state' = YRoundOf(cpu_table, self_y_bits, self_y)
    /\ x_offset' = 0
    /\ x_result' = None
    /\ examined' = Append(examined, self_y)
    /\ dispatched' = <<>>
    /\ dpc' = "sweep"
    /\ UNCHANGED <<self_y_bits, self_y, self_workgroup_configuration,
                   self_target_checksum, cpu_table, sign, y_init,
                   round_result, run_result, exit_code, signed, nonRunVars>>

\* x_round reports a hit of the dispatch; compute_round verifies it and
\* returns (hasher.rs 146-152); run_hasher signs the ROM if asked to and
\* returns (main.rs 42-51)
XRoundFound ==
    /\ dpc = "sweep" /\ Len(dispatched) < MaxDispatches
    /\ \E xv \in HitXs :
         /\ InDispatch(xv, x_offset, StepOf(self_workgroup_configuration))
         /\ x_result' = <<"Found", self_y, xv>>
         /\ LET verify_checksum ==
                    VerifyOf(cpu_table, self_y_bits, self_y, xv)
                result == FoundResult(verify_checksum, self_target_checksum,
                                      self_y, xv)
            IN  /\ round_result' = result
                /\ IF result[1] = "Err"
                   THEN run_result' = result /\ signed' = signed
                   ELSE IF sign
                   THEN /\ signed' = <<self_y, xv>>
                        /\ \E io \in {"Ok", "IoError"} :
                               run_result' = IF io = "Ok" THEN <<"Ok">>
                                             ELSE <<"Err", "IoError">>
                   ELSE run_result' = <<"Ok">> /\ signed' = signed
    /\ dispatched' = Append(dispatched, x_offset)
    /\ dpc' = "returned"
    /\ UNCHANGED <<self_y_bits, self_y, self_workgroup_configuration,
                   self_target_checksum, cpu_table, sign, y_init,
                   round_state, x_offset, exit_code, examined, nonRunVars>>

\* x_round reports no hit and x_offset + step <= 2^32: Continue(step), and
\* compute_round adds the step to its 32-bit x_offset (hasher.rs 153-155).
\* A sum of 2^32 overflows: the addition panics in a build with overflow
\* checks and wraps in one without.
XRoundContinue ==
    /\ dpc = "sweep" /\ Len(dispatched) < MaxDispatches
    /\ LET step == StepOf(self_workgroup_configuration)
       IN  /\ x_offset + step <= XSpace
           /\ x_result' = <<"Continue", step>>
           /\ IF x_offset + step < XSpace
              THEN /\ x_offset' = x_offset + step
                   /\ UNCHANGED <<dpc, run_result, exit_code>>
              ELSE \E overflow \in {"panic", "wrap"} :
                     IF overflow = "panic"
                     THEN /\ run_result' = <<"panic">>
                          /\ exit_code' = 101
                          /\ dpc' = "exited"
                          /\ x_offset' = x_offset
                     ELSE /\ x_offset' = (x_offset + step) % XSpace
                          /\ UNCHANGED <<dpc, run_result, exit_code>>
    /\ dispatched' = Append(dispatched, x_offset)
    /\ UNCHANGED <<self_y_bits, self_y, self_workgroup_configuration,
                   self_target_checksum, cpu_table, sign, y_init,
                   round_state, round_result, signed, examined, nonRunVars>>

\* x_round reports no hit and x_offset + step > 2^32: End; compute_round
\* leaves its loop and returns End after the last y, Continue with the next
\* y otherwise (hasher.rs 156-168); on End run_hasher returns Ok
\* (main.rs 52-63)
XRoundEnd ==
    /\ dpc = "sweep" /\ Len(dispatched) < MaxDispatches
    /\ x_offset + StepOf(self_workgroup_configuration) > XSpace
    /\ x_result' = <<"End">>
    /\ dispatched' = Append(dispatched, x_offset)
    /\ IF IsLastY(self_y, Len(self_y_bits))
       THEN /\ round_result' = <<"End">>
            /\ run_result' = <<"Ok">>
            /\ dpc' = "returned"
            /\ self_y' = self_y
       ELSE /\ self_y' = add(self_y, W(1))
            /\ round_result' = <<"Continue">>
            /\ run_result' = run_result
            /\ dpc' = "loop"
    /\ UNCHANGED <<self_y_bits, self_workgroup_configuration,
                   self_target_checksum, cpu_table, sign, y_init,
                   round_state, x_offset, exit_code, signed, examined,
                   nonRunVars>>

\* x_round returns an error, which compute_round and run_hasher return
\* (hasher.rs 143, main.rs 42)
XRoundFails ==
    /\ dpc = "sweep" /\ Len(dispatched) < MaxDispatches
    /\ x_result' = <<"Err", "GPUHasherError">>
    /\ round_result' = <<"Err", "GPUHasherError">>
    /\ run_result' = <<"Err", "GPUHasherError">>
    /\ dpc' = "returned"
    /\ UNCHANGED <<self_y_bits, self_y, self_workgroup_configuration,
                   self_target_checksum, cpu_table, sign, y_init,
                   round_state, x_offset, exit_code, signed, examined,
                   dispatched, nonRunVars>>

\* main: print the error if run_hasher returned one, and return
\* (main.rs 66-70); the process ends with exit code 0
Main ==
    /\ dpc = "returned"
    /\ exit_code' = 0
    /\ dpc' = "exited"
    /\ UNCHANGED <<self_y_bits, self_y, self_workgroup_configuration,
                   self_target_checksum, cpu_table, sign, y_init,
                   round_state, x_offset, x_result, round_result, run_result,
                   signed, examined, dispatched, nonRunVars>>

RunNext ==
    \/ NewHasher \/ NewHasherFails \/ ComputeRoundPastEnd \/ ComputeRoundBegin
    \/ XRoundFound \/ XRoundContinue \/ XRoundEnd \/ XRoundFails \/ Main

SpecRun == RunInit /\ [][RunNext]_vars


(***************************************************************************)
(* Properties of the search driver.                                        *)
(***************************************************************************)
\* C2: compute_round returns Found(y, x) only when cpu.verify(y, x) is the
\* target; when x_round reports a hit whose verify result is not the
\* target, compute_round returns VerifyError(y, x, checksum), run_hasher
\* returns it (the search stops), and sign_rom is not called: sign_rom is
\* called only with the (y, x) of a Found.
VerifiedHitsOnly ==
    /\ (round_result # None /\ round_result[1] = "Found") =>
           verify(DriverCpu, self_y_bits, round_result[2], round_result[3])
               = self_target_checksum
    /\ (x_result # None /\ x_result[1] = "Found") =>
           LET verify_checksum ==
                   VerifyOf(cpu_table, self_y_bits, x_result[2], x_result[3])
           IN  verify_checksum # self_target_checksum =>
                   /\ round_result =
                          <<"Err", "VerifyError", x_result[2], x_result[3],
                            verify_checksum>>
                   /\ run_result = round_result
                   /\ dpc \in {"returned", "exited"}
                   /\ signed = None
    /\ signed # None => round_result = <<"Found", signed[1], signed[2]>>

\* a run with --sign has ended on a VerifyError
VerifyErrorSeen ==
    /\ dpc = "exited" /\ sign = TRUE
    /\ round_result # None /\ round_result[1] = "Err"
    /\ round_result[2] = "VerifyError"

\* C3: with a first Y (--y-init, or 0) of at most 2^|L| - 1, the Y values
\* passed to y_round are the first Y and its successors, in order and each
\* once, none above 2^|L| - 1; the stored Y never exceeds 2^|L| - 1; End is
\* returned by the call that finishes Y = 2^|L| - 1 and by no other.  With a
\* first Y above 2^|L| - 1, compute_round returns End with no y_round and no
\* dispatch.
SearchMonotone ==
    (dpc \notin {"idle", "start"} /\ self_y # None) =>
        LET first == IF y_init = None THEN <<0, 0>> ELSE y_init
            max   == MaxY(Len(self_y_bits))
            n     == Len(examined)
        IN  IF lt(max, first)
            THEN /\ examined = <<>> /\ dispatched = <<>> /\ round_state = None
                 /\ dpc # "loop" => round_result = <<"End">>
            ELSE /\ \A k \in 1..n :
                       /\ examined[k] = add(first, W(k - 1))
                       /\ ~lt(max, examined[k])
                       /\ k < n => lt(examined[k], examined[k + 1])
                 /\ ~lt(max, self_y)
                 /\ dpc = "loop" => self_y = add(first, W(n))
                 /\ dpc # "loop" => (n > 0 /\ self_y = examined[n])
                 /\ round_result = <<"End">> <=>
                        (x_result = <<"End">> /\ self_y = max
                            /\ dpc \in {"returned", "exited"})

\* the search from --y-init 0xFFFFFFFE with 32 Y bits has examined
\* 0xFFFFFFFE and 0xFFFFFFFF and ended
SearchReachedLastY ==
    /\ examined = << <<65535, 65534>>, <<65535, 65535>> >>
    /\ round_result = <<"End">> /\ run_result = <<"Ok">>

\* C5: the process ends with exit code 0 exactly when run_hasher returned
\* Ok (a collision found, and signed if asked, or the search exhausted), and
\* with a non-zero exit code when run_hasher returned an error.
ExitStatusAsStated ==
    dpc = "exited" => (exit_code = 0 <=> run_result = <<"Ok">>)

\* C8: for each Y, x_round is called with x_offset = 0, step, 2 * step, ...,
\* every offset below 2^32; the addition to x_offset never overflows; and
\* when x_round returns End the dispatches made have covered [0, 2^32).
XSweepAsStated ==
    dpc \notin {"idle", "start"} =>
        LET step == StepOf(self_workgroup_configuration)
        IN  /\ run_result # <<"panic">>
            /\ \A k \in 1..Len(dispatched) :
                   dispatched[k] = (k - 1) * step /\ dispatched[k] < XSpace
            /\ x_result = <<"End">> => Len(dispatched) * step >= XSpace


(***************************************************************************)
(* One dispatch of the GPU kernel.  The shader and gpu.rs are not among    *)
(* the repository's files here; the threads are those of the               *)
(* specification's section 4.C (tail, finalize, compare, compare-and-swap  *)
(* on found_flag, then the writes of Y and X) and the read-back is that of *)
(* section 4.D, made after the dispatch has completed.                     *)
(***************************************************************************)
\* the threads of the dispatch followed
NumThreads == 3

Threads == 0..(NumThreads - 1)

\* candidate_X = x_offset + global_id
Candidate(u, t) == W(u.x_offset + t)

\* the checksum a thread compares with the target
KernelChecksum(u, candidate_X) == finalize(KernelTail(u.state, u.data, candidate_X))

\* a plain store to found_flag in place of the compare-and-swap
CasAlwaysSucceeds(flag) == TRUE

\* the compare-and-swap of found_flag from 0 to 1 succeeds
CasSucceeds(flag) == flag = 0

\* the prefix state and data of Y = 2 on the driver's IPL3, and a prefix
\* state with S[10] = S[11] = S[14] = S[15] = 0, on which the tails of the
\* candidates 1 and 2 coincide (ror(1, 1) = ror(2, 2)): two candidates of
\* one dispatch match the same target
PrefixStates ==
    { [state |-> y_round(DriverCpu, TwoBitLayout, <<0, 2>>),
       data  |-> DriverCpu.ipl3[1006], y |-> <<0, 2>>],
      [state |-> [k \in 0..15 |-> IF k \in {10, 11, 14, 15} THEN <<0, 0>>
                                  ELSE W(1000 + k)],
       data  |-> <<0, 0>>, y |-> <<0, 5>>] }

GpuInit ==
    /\ \E p \in PrefixStates, xo \in {0, 1} :
         \E target \in {Target6102} \cup
                 {KernelChecksum(p, W(xo + t)) : t \in Threads} :
           uniform = [state |-> p.state, data |-> p.data, y |-> p.y,
                      x_offset |-> xo, target |-> target]
    /\ tpc = [t \in Threads |-> "hash"]
       \* the orchestrator zeroes the result buffer before the dispatch
    /\ found_flag = 0 /\ result_y = <<0, 0>> /\ result_x = <<0, 0>>
    /\ readback = None
    /\ cas_winners = {} /\ y_writers = {} /\ x_writers = {}
    /\ NonGpuIdle

\* thread t runs the tail and finalize for its candidate and compares the
\* checksum with the target
ThreadHash(t) ==
    /\ tpc[t] = "hash"
    /\ tpc' = [tpc EXCEPT ![t] =
                  IF KernelChecksum(uniform, Candidate(uniform, t)) = uniform.target
                  THEN "cas" ELSE "done"]
    /\ UNCHANGED <<uniform, found_flag, result_y, result_x, readback, cas_winners, y_writers, x_writers, nonGpuVars>>

\* thread t, whose candidate matched, does the compare-and-swap
ThreadCas(t) ==
    /\ tpc[t] = "cas"
    /\ IF CasSucceeds(found_flag)
       THEN /\ found_flag' = 1
            /\ cas_winners' = cas_winners \cup {t}
            /\ tpc' = [tpc EXCEPT ![t] = "write_y"]
       ELSE /\ tpc' = [tpc EXCEPT ![t] = "done"]
            /\ UNCHANGED <<found_flag, cas_winners>>
    /\ UNCHANGED <<uniform, result_y, result_x, readback, y_writers, x_writers, nonGpuVars>>

\* the winner writes Y into the result buffer
ThreadWriteY(t) ==
    /\ tpc[t] = "write_y"
    /\ result_y' = uniform.y
    /\ y_writers' = y_writers \cup {t}
    /\ tpc' = [tpc EXCEPT ![t] = "write_x"]
    /\ UNCHANGED <<uniform, found_flag, result_x, readback, cas_winners, x_writers, nonGpuVars>>

\* the winner writes candidate_X into the result buffer
ThreadWriteX(t) ==
    /\ tpc[t] = "write_x"
    /\ result_x' = Candidate(uniform, t)
    /\ x_writers' = x_writers \cup {t}
    /\ tpc' = [tpc EXCEPT ![t] = "done"]
    /\ UNCHANGED <<uniform, found_flag, result_y, readback, cas_winners, y_writers, nonGpuVars>>

\* the dispatch has completed: x_round maps the result buffer and reads it
ReadResult ==
    /\ readback = None
    /\ \A t \in Threads : tpc[t] = "done"
    /\ readback' = IF found_flag # 0 THEN <<"Found", result_y, result_x>>
                   ELSE <<"NoHit">>
    /\ UNCHANGED <<uniform, tpc, found_flag, result_y, result_x, cas_winners, y_writers, x_writers, nonGpuVars>>

GpuNext ==
    \/ \E t \in Threads :
         ThreadHash(t) \/ ThreadCas(t) \/ ThreadWriteY(t) \/ ThreadWriteX(t)
    \/ ReadResult

SpecGpu == GpuInit /\ [][GpuNext]_vars

(***************************************************************************)
(* Properties of the dispatch.                                             *)
(***************************************************************************)
\* the threads whose candidate matches the target
Matching ==
    {t \in Threads : KernelChecksum(uniform, Candidate(uniform, t)) = uniform.target}

\* C9: under every interleaving of the threads, at most one thread wins the
\* compare-and-swap and only it writes Y and X, and its candidate matches;
\* when the dispatch has completed, a hit is recorded exactly if some
\* candidate matches, and the recorded (Y, X) is the Y of the dispatch with
\* the candidate of that one thread; with no matching candidate found_flag
\* stays zero.  What x_round reads back is that record.
AtomicHitReport ==
    /\ Cardinality(cas_winners) <= 1
    /\ cas_winners \subseteq Matching
    /\ y_writers \subseteq cas_winners /\ x_writers \subseteq cas_winners
    /\ found_flag = (IF cas_winners = {} THEN 0 ELSE 1)
    /\ Matching = {} => found_flag = 0
    /\ (\A t \in Threads : tpc[t] = "done") =>
           /\ found_flag = 1 <=> Matching # {}
           /\ found_flag = 1 =>
                  \E t \in Matching :
                      /\ cas_winners = {t} /\ y_writers = {t} /\ x_writers = {t}
                      /\ result_y = uniform.y
                      /\ result_x = Candidate(uniform, t)
    /\ readback # None =>
           readback = (IF Matching = {} THEN <<"NoHit">>
                       ELSE <<"Found", result_y, result_x>>)

\* a dispatch in which two candidates matched has completed and been read
TwoMatchesOneHit ==
    /\ Cardinality(Matching) = 2
    /\ readback # None /\ readback[1] = "Found"

=============================================================================
